---------------------------- MODULE Spec2Model ----------------------------
(***************************************************************************)
(* The four line-rewriting scripts of the repository (extract_git.py,      *)
(* modify_main.py, modify_main_v2.py, modify_main_final.py).  Each reads   *)
(* electron/main.ts into `lines`, scans it once with cursor i building     *)
(* `new_lines`, and writes new_lines back over the same path.              *)
(*                                                                         *)
(* A line of text is modelled by an integer: a positive number names a     *)
(* line carrying one of the texts the scripts test for or insert; a        *)
(* negative number is an unrelated line, and different negative numbers    *)
(* are different texts.                                                    *)
(***************************************************************************)
EXTENDS Integers, Sequences, FiniteSets

-----------------------------------------------------------------------------
(* Lines the scripts look for in the input.                                *)

\* "import { generateFileId } from ..."
GenImport == 1
\* "interface GitWatcherSet {"
Iface == 2
\* "const GIT_DEBOUNCE_MS = ..."
Debounce == 3
\* "  sshManager.on('status-change', ...) => {"
SshStatus == 4
\* "  })"
Close == 5
\* "ipcMain.handle('git:get-info', ..."
GitInfo == 6
\* "ipcMain.handle('git:status', ..." : a git handler other than get-info and pull
GitOther == 7
\* "ipcMain.handle('git:pull', ..."
GitPull == 8
\* "ipcMain.handle('fs:readFile', ..." : a handler that is not a git handler
FsHandle == 9
\* "// File system IPC handlers"
FsComment == 10
\* "  // Clean up all git watchers" as the input file has it
Cleanup == 11
\* "  gitWatchers.clear()"
Clear == 12
\* "  sshManager.on('error', ...) => {" : a listener other than the status-change one
SshOther == 19

(* Lines the scripts insert.                                               *)

\* "import { registerGitHandlers, cleanupGitWatchers } from './services/git-service.js'\n"
NewImport == 13
\* "\n"
Blank == 14
\* "  // Register all git-related IPC handlers\n"
RegComment == 15
\* "  registerGitHandlers(mainWindow, sshManager, execInContextAsync)\n"
RegCall == 16
\* "    // Clean up all git watchers\n"
NewCleanup == 17
\* "    cleanupGitWatchers()\n"
CleanupCall == 18

(* The substring tests of the scripts.                                     *)

\* 'generateFileId' in line
HasGenerateFileId(l) == l = GenImport
\* line.strip().startswith("import { generateFileId")
StartsGenImport(l) == l = GenImport
\* 'interface GitWatcherSet' in line
HasIface(l) == l = Iface
\* 'const GIT_DEBOUNCE_MS' in line
HasDebounce(l) == l = Debounce
\* 'sshManager.on' in text
HasSshOn(l) == l \in {SshStatus, SshOther}
\* "sshManager.on('status-change'" in text
HasStatusChange(l) == l = SshStatus
\* '  })' in line
HasClose(l) == l = Close
\* "ipcMain.handle('git:get-info'" in line
HasGitInfo(l) == l = GitInfo
\* "ipcMain.handle(" in line
HasHandle(l) == l \in {GitInfo, GitOther, GitPull, FsHandle}
\* "'git:pull'" in line
HasGitPull(l) == l = GitPull
\* "// File system IPC handlers" in line
HasFsComment(l) == l = FsComment
\* '// Clean up all git watchers' in line
HasCleanup(l) == l \in {Cleanup, NewCleanup}
\* 'gitWatchers.clear()' in line
HasClear(l) == l = Clear


-----------------------------------------------------------------------------
(* Numbers written in the scripts.                                         *)

\* extract_git.py: `i == 16`, i counting lines from 0
EG_ImportIndex == 16
\* extract_git.py: lines[max(0, i-20):i]
EG_Window == 20

\* modify_main.py: line numbers count from 1
MM_ImportLineNum == 17
MM_IfaceLine == 434
MM_IfaceSkip == 10
MM_CloseLine == 492
MM_Context == 10
MM_GitLine == 978
MM_GitSkip == 701
MM_CleanupLine == 507
MM_CleanupSkip == 13

\* modify_main_v2.py
V2_ImportLine == 16
V2_IfaceLine == 439
V2_IfaceEnd == 448
V2_CloseLine == 497
V2_Context == 10
V2_GitLine == 947
V2_GitEnd == 1689
V2_CleanupAfter == 500

\* modify_main_final.py
FN_ImportLine == 16
FN_IfaceLine == 434
FN_IfaceSkip == 10
FN_CloseAfter == 540
FN_CloseBefore == 550
FN_Context == 10
FN_GitLine == 1277
FN_GitSkip == 742
FN_CleanupAfter == 500
FN_CleanupBefore == 600

-----------------------------------------------------------------------------
(* Bounds of the model.                                                    *)

\* most '  })' lines that follow the one closing the status-change block
MaxExtraClose == 1
\* most git handler blocks between the 'git:get-info' and 'git:pull' ones
MaxExtraHandlers == 1
\* most unrelated lines put in front of a document for a drifted second run
MaxShift == 2
\* most lines of new_lines on disk when a write-back is interrupted
MaxFlushed == 1

-----------------------------------------------------------------------------
Max(a, b) == IF a > b THEN a ELSE b

(* Input documents.  A layout says at which 1-indexed line each region of  *)
(* electron/main.ts starts; the options say which regions a document has.  *)

Scripts == {"extract_git", "modify_main", "modify_main_v2", "modify_main_final"}

\* The layout extract_git.py is run on: only the import is looked up by position.
EG_Layout ==
    LET imp == EG_ImportIndex + 1
        ifc == imp + 3
        cls == ifc + 6
        cln == cls + 2 * MaxExtraClose + 3
        git == cln + 5
        gln == 2 * MaxExtraHandlers + 4
    IN  [importLine |-> imp, ifaceLine |-> ifc, ifaceLen |-> 3,
         closeLine |-> cls, cleanupLine |-> cln, cleanupLen |-> 3,
         gitLine |-> git, gitLen |-> gln, len |-> git + gln + 2]

\* The layouts the other three scripts are written for: each region starts at the
\* line number the script names, and is as long as the script takes it to be.
MM_Layout ==
    [importLine |-> MM_ImportLineNum - 1, ifaceLine |-> MM_IfaceLine,
     ifaceLen |-> MM_IfaceSkip, closeLine |-> MM_CloseLine,
     cleanupLine |-> MM_CleanupLine, cleanupLen |-> MM_CleanupSkip,
     gitLine |-> MM_GitLine, gitLen |-> MM_GitSkip,
     len |-> MM_GitLine + MM_GitSkip + 2]

V2_Layout ==
    LET cls == V2_CloseLine
        cln == Max(cls + 2 * MaxExtraClose + 3, V2_CleanupAfter + 1)
    IN  [importLine |-> V2_ImportLine, ifaceLine |-> V2_IfaceLine,
         ifaceLen |-> V2_IfaceEnd - V2_IfaceLine + 1, closeLine |-> cls,
         cleanupLine |-> cln, cleanupLen |-> 3,
         gitLine |-> V2_GitLine, gitLen |-> V2_GitEnd - V2_GitLine + 1,
         len |-> V2_GitEnd + 3]

FN_Layout ==
    LET cls == FN_CloseAfter + 1
        cln == cls + 2 * MaxExtraClose + 3
    IN  [importLine |-> FN_ImportLine, ifaceLine |-> FN_IfaceLine,
         ifaceLen |-> FN_IfaceSkip, closeLine |-> cls,
         cleanupLine |-> cln, cleanupLen |-> 3,
         gitLine |-> FN_GitLine, gitLen |-> FN_GitSkip,
         len |-> FN_GitLine + FN_GitSkip + 2]

Layout(s) ==
    CASE s = "extract_git" -> EG_Layout
      [] s = "modify_main" -> MM_Layout
      [] s = "modify_main_v2" -> V2_Layout
      [] s = "modify_main_final" -> FN_Layout

\* imp: line of the generateFileId import (0: none); iface, cleanup: "none", "closed"
\* (start and end marker) or "open" (start marker only); ssh: number of further
\* '  })' lines after the status-change block (-1: no block; -2: no status-change
\* block, but an sshManager.on('error' block closed by '  })' in its place); git:
\* number of further git handlers between get-info and pull (-1: no git handlers);
\* next: the line after the git handlers.
AllOptions ==
    [imp : {0, V2_ImportLine, EG_ImportIndex + 1},
     iface : {"none", "closed", "open"},
     ssh : -2 .. MaxExtraClose,
     cleanup : {"none", "closed", "open"},
     git : -1 .. MaxExtraHandlers,
     next : {FsHandle, FsComment}]

\* The document a script is written for: every region present, where it expects it.
Expected(s) ==
    [imp |-> Layout(s).importLine, iface |-> "closed", ssh |-> 0,
     cleanup |-> "closed", git |-> 0, next |-> FsComment]

\* extract_git.py is run on every combination of the options; the other three, whose
\* documents are some two thousand lines long, on the document they are written for
\* and on the documents one option away from it.
Options(s) ==
    IF s = "extract_git" THEN AllOptions
    ELSE {o \in AllOptions :
            Cardinality({f \in DOMAIN o : o[f] # Expected(s)[f]}) <= 1}

\* The marked lines of a document, as <<line number, line>> pairs.
Marks(L, o) ==
    (IF o.imp = 0 THEN {} ELSE {<<o.imp, GenImport>>})
    \cup (IF o.iface = "none" THEN {} ELSE {<<L.ifaceLine, Iface>>})
    \cup (IF o.iface = "closed" THEN {<<L.ifaceLine + L.ifaceLen - 1, Debounce>>} ELSE {})
    \cup (IF o.ssh = -1 THEN {}
          ELSE IF o.ssh = -2 THEN {<<L.closeLine - 2, SshOther>>, <<L.closeLine, Close>>}
          ELSE {<<L.closeLine - 2, SshStatus>>}
               \cup {<<L.closeLine + 2 * e, Close>> : e \in 0 .. o.ssh})
    \cup (IF o.cleanup = "none" THEN {} ELSE {<<L.cleanupLine, Cleanup>>})
    \cup (IF o.cleanup = "closed" THEN {<<L.cleanupLine + L.cleanupLen - 1, Clear>>} ELSE {})
    \cup (IF o.git < 0 THEN {}
          ELSE {<<L.gitLine, GitInfo>>, <<L.gitLine + L.gitLen - 2, GitPull>>,
                <<L.gitLine + L.gitLen, o.next>>}
               \cup {<<L.gitLine + 2 * g, GitOther>> : g \in 1 .. o.git})

\* The document: every line that is not marked is an unrelated line of its own.
Document(L, o) ==
    LET M == Marks(L, o)
        P == {m[1] : m \in M}
    IN  [p \in 1 .. L.len |->
            IF p \in P THEN (CHOOSE m \in M : m[1] = p)[2] ELSE 0 - p]

\* k unrelated lines, none of them a line of D, put in front of D.
Drifted(D, k) == [j \in 1 .. k |-> 0 - (Len(D) + j)] \o D

Documents(s) == {Document(Layout(s), o) : o \in Options(s)}

-----------------------------------------------------------------------------
(* State.                                                                  *)

VARIABLES
    script,         \* which of the four scripts is run
    file,           \* the content of electron/main.ts on disk
    lines,          \* f.readlines()
    new_lines,      \* the output being built
    i,              \* the scan cursor, counting lines from 0
    skip_until_line,\* modify_main_v2.py only; 0 stands for None
    pc,             \* where main() is
    run,            \* 1: first run, 2: a second run of the same script
    prev,           \* what the first run wrote (second run only)
    drift           \* lines put in front of the first input for the second run

vars == <<script, file, lines, new_lines, i, skip_until_line, pc, run, prev, drift>>

\* lines[k], k counting from 0
At(k) == lines[k + 1]
N == Len(lines)

\* n copies of the sequence s, one after the other
RECURSIVE Repeat(_, _)
Repeat(s, n) == IF n = 0 THEN << >> ELSE s \o Repeat(s, n - 1)

Init ==
    /\ script \in Scripts
    /\ file \in Documents(script)
    /\ lines = file
    /\ new_lines = << >>
    /\ i = 0
    /\ skip_until_line = 0
    /\ pc = "scan"
    /\ run = 1
    /\ prev = << >>
    /\ drift = 0

Scanning(s) == script = s /\ pc = "scan" /\ i < N

-----------------------------------------------------------------------------
(* extract_git.py                                                          *)

EG_IsImport == i = EG_ImportIndex /\ HasGenerateFileId(At(i))
EG_IsIface == ~EG_IsImport /\ HasIface(At(i))
EG_IsHandlers == ~EG_IsImport /\ ~HasIface(At(i)) /\ HasGitInfo(At(i))
EG_Before == Max(0, i - EG_Window) .. (i - 1)
EG_IsClose ==
    /\ ~EG_IsImport /\ ~HasIface(At(i)) /\ ~HasGitInfo(At(i))
    /\ i > 0 /\ HasClose(At(i)) /\ \E j \in EG_Before : HasSshOn(At(j))
EG_IsCleanup ==
    /\ ~EG_IsImport /\ ~HasIface(At(i)) /\ ~HasGitInfo(At(i)) /\ ~EG_IsClose
    /\ HasCleanup(At(i))

\* Step 1: the import goes after the generateFileId line.
EG_AddImport ==
    /\ Scanning("extract_git") /\ EG_IsImport
    /\ new_lines' = new_lines \o <<At(i), NewImport>>
    /\ i' = i + 1
    /\ UNCHANGED <<script, file, lines, skip_until_line, pc, run, prev, drift>>

\* Step 2: enter the loop that skips the GitWatcherSet interface.
EG_SkipIface ==
    /\ Scanning("extract_git") /\ EG_IsIface
    /\ pc' = "skip_iface"
    /\ UNCHANGED <<script, file, lines, new_lines, i, skip_until_line, run, prev, drift>>

\* One iteration of `while i < len(lines): i += 1; if end in lines[i]: i += 1; break`.
\* lines[i] with i = len(lines) raises IndexError.
\* `found`: the end marker is in lines[i + 1].
SkipToEnd(found) ==
    IF i >= N THEN i' = i /\ pc' = "scan"
    ELSE IF i + 1 >= N THEN i' = i + 1 /\ pc' = "error"
    ELSE IF found THEN i' = i + 2 /\ pc' = "scan"
    ELSE i' = i + 1 /\ UNCHANGED pc

EG_SkipIfaceStep ==
    /\ script = "extract_git" /\ pc = "skip_iface"
    /\ SkipToEnd(HasDebounce(At(i + 1)))
    /\ UNCHANGED <<script, file, lines, new_lines, skip_until_line, run, prev, drift>>

\* Step 3: enter the loop that skips the git handlers.
EG_SkipHandlers ==
    /\ Scanning("extract_git") /\ EG_IsHandlers
    /\ pc' = "skip_handlers"
    /\ UNCHANGED <<script, file, lines, new_lines, i, skip_until_line, run, prev, drift>>

\* The loop stops at the end of the file, at an ipcMain.handle( line that is not
\* the git:pull one, or at the file system comment; that line is kept.
EG_SkipHandlersStep ==
    /\ script = "extract_git" /\ pc = "skip_handlers"
    /\ IF i >= N THEN i' = i /\ pc' = "scan"
       ELSE /\ i' = i + 1
            /\ IF \/ i + 1 >= N
                  \/ (HasHandle(At(i + 1)) /\ ~HasGitPull(At(i + 1)))
                  \/ HasFsComment(At(i + 1))
               THEN pc' = "scan" ELSE UNCHANGED pc
    /\ UNCHANGED <<script, file, lines, new_lines, skip_until_line, run, prev, drift>>

\* Step 4.  The `continue` belongs to the `for j` loop: every j of the window with
\* the status-change line appends the four lines and advances i, and after the
\* loop the iteration goes on to step 5 and the default with the same `line`.
EG_Register ==
    /\ Scanning("extract_git") /\ EG_IsClose
    /\ LET n == Cardinality({j \in EG_Before : HasStatusChange(At(j))})
           added == Repeat(<<At(i), Blank, RegComment, RegCall>>, n)
       IN  IF HasCleanup(At(i))
           THEN /\ new_lines' = new_lines \o added \o <<NewCleanup, CleanupCall>>
                /\ i' = i + n
                /\ pc' = "skip_cleanup"
           ELSE /\ new_lines' = new_lines \o added \o <<At(i)>>
                /\ i' = i + n + 1
                /\ UNCHANGED pc
    /\ UNCHANGED <<script, file, lines, skip_until_line, run, prev, drift>>

\* EG_ReplaceCleanup with the skip loop left out: the two lines are appended and
\* the iteration ends where it began.
EG_ReplaceCleanup_NoSkip ==
    /\ Scanning("extract_git") /\ EG_IsCleanup
    /\ new_lines' = new_lines \o <<NewCleanup, CleanupCall>>
    /\ UNCHANGED <<script, file, lines, i, skip_until_line, pc, run, prev, drift>>

\* Step 5: the cleanup block is replaced by two lines.
EG_ReplaceCleanup ==
    /\ Scanning("extract_git") /\ EG_IsCleanup
    /\ new_lines' = new_lines \o <<NewCleanup, CleanupCall>>
    /\ pc' = "skip_cleanup"
    /\ UNCHANGED <<script, file, lines, i, skip_until_line, run, prev, drift>>

EG_SkipCleanupStep ==
    /\ script = "extract_git" /\ pc = "skip_cleanup"
    /\ SkipToEnd(HasClear(At(i + 1)))
    /\ UNCHANGED <<script, file, lines, new_lines, skip_until_line, run, prev, drift>>

\* Default: keep the line.
EG_Keep ==
    /\ Scanning("extract_git")
    /\ ~EG_IsImport /\ ~HasIface(At(i)) /\ ~HasGitInfo(At(i)) /\ ~EG_IsClose
    /\ ~HasCleanup(At(i))
    /\ new_lines' = Append(new_lines, At(i))
    /\ i' = i + 1
    /\ UNCHANGED <<script, file, lines, skip_until_line, pc, run, prev, drift>>

-----------------------------------------------------------------------------
(* modify_main.py                                                          *)

\* "sshManager.on('status-change'" in ''.join(lines[max(0, i-c):i])
StatusChangeBefore(c) == \E j \in Max(0, i - c) .. (i - 1) : HasStatusChange(At(j))

MM_IsImport == i + 1 = MM_ImportLineNum /\ StartsGenImport(At(i - 1))
MM_IsIface == ~MM_IsImport /\ i + 1 = MM_IfaceLine /\ HasIface(At(i))
MM_IsClose ==
    /\ ~MM_IsImport /\ ~MM_IsIface
    /\ i + 1 = MM_CloseLine /\ HasClose(At(i)) /\ i > 0
    /\ StatusChangeBefore(MM_Context)
MM_IsGit ==
    /\ ~MM_IsImport /\ ~MM_IsIface /\ ~MM_IsClose
    /\ i + 1 = MM_GitLine /\ HasGitInfo(At(i))
MM_IsCleanup ==
    /\ ~MM_IsImport /\ ~MM_IsIface /\ ~MM_IsClose /\ ~MM_IsGit
    /\ i + 1 = MM_CleanupLine /\ HasCleanup(At(i))

\* Step 1: at line 17, the import goes before the line, that is after line 16.
MM_AddImport ==
    /\ Scanning("modify_main") /\ MM_IsImport
    /\ new_lines' = new_lines \o <<NewImport, At(i)>>
    /\ i' = i + 1
    /\ UNCHANGED <<script, file, lines, skip_until_line, pc, run, prev, drift>>

\* Step 2
MM_SkipIface ==
    /\ Scanning("modify_main") /\ MM_IsIface
    /\ i' = i + MM_IfaceSkip
    /\ UNCHANGED <<script, file, lines, new_lines, skip_until_line, pc, run, prev, drift>>

\* Step 3
MM_Register ==
    /\ Scanning("modify_main") /\ MM_IsClose
    /\ new_lines' = new_lines \o <<At(i), Blank, RegComment, RegCall>>
    /\ i' = i + 1
    /\ UNCHANGED <<script, file, lines, skip_until_line, pc, run, prev, drift>>

\* Step 4
MM_SkipGit ==
    /\ Scanning("modify_main") /\ MM_IsGit
    /\ i' = i + MM_GitSkip
    /\ UNCHANGED <<script, file, lines, new_lines, skip_until_line, pc, run, prev, drift>>

\* Step 5
MM_ReplaceCleanup ==
    /\ Scanning("modify_main") /\ MM_IsCleanup
    /\ new_lines' = new_lines \o <<NewCleanup, CleanupCall>>
    /\ i' = i + MM_CleanupSkip
    /\ UNCHANGED <<script, file, lines, skip_until_line, pc, run, prev, drift>>

MM_Keep ==
    /\ Scanning("modify_main")
    /\ ~MM_IsImport /\ ~MM_IsIface /\ ~MM_IsClose /\ ~MM_IsGit /\ ~MM_IsCleanup
    /\ new_lines' = Append(new_lines, At(i))
    /\ i' = i + 1
    /\ UNCHANGED <<script, file, lines, skip_until_line, pc, run, prev, drift>>

-----------------------------------------------------------------------------
(* modify_main_v2.py: `for i, line in enumerate(lines)`                    *)

\* `continue  # Skip this line`
V2_Skipped == skip_until_line # 0 /\ i + 1 <= skip_until_line

V2_IsImport == ~V2_Skipped /\ i + 1 = V2_ImportLine /\ HasGenerateFileId(At(i))
V2_IsIface == ~V2_Skipped /\ ~V2_IsImport /\ i + 1 = V2_IfaceLine /\ HasIface(At(i))
V2_IsClose ==
    /\ ~V2_Skipped /\ ~V2_IsImport /\ ~V2_IsIface
    /\ i + 1 = V2_CloseLine /\ HasClose(At(i))
    /\ StatusChangeBefore(V2_Context)
V2_IsGit ==
    /\ ~V2_Skipped /\ ~V2_IsImport /\ ~V2_IsIface /\ ~V2_IsClose
    /\ i + 1 = V2_GitLine /\ HasGitInfo(At(i))
V2_IsCleanup ==
    /\ ~V2_Skipped /\ ~V2_IsImport /\ ~V2_IsIface /\ ~V2_IsClose /\ ~V2_IsGit
    /\ HasCleanup(At(i)) /\ i + 1 > V2_CleanupAfter

V2_SkipLine ==
    /\ Scanning("modify_main_v2") /\ V2_Skipped
    /\ i' = i + 1
    /\ UNCHANGED <<script, file, lines, new_lines, skip_until_line, pc, run, prev, drift>>

\* Step 1.  A line reached with line_num > skip_until_line resets it to None
\* before the steps, here and in every action below.
V2_AddImport ==
    /\ Scanning("modify_main_v2") /\ V2_IsImport
    /\ new_lines' = new_lines \o <<At(i), NewImport>>
    /\ i' = i + 1
    /\ skip_until_line' = 0
    /\ UNCHANGED <<script, file, lines, pc, run, prev, drift>>

\* Step 2
V2_SkipIface ==
    /\ Scanning("modify_main_v2") /\ V2_IsIface
    /\ skip_until_line' = V2_IfaceEnd
    /\ i' = i + 1
    /\ UNCHANGED <<script, file, lines, new_lines, pc, run, prev, drift>>

\* Step 3
V2_Register ==
    /\ Scanning("modify_main_v2") /\ V2_IsClose
    /\ new_lines' = new_lines \o <<At(i), Blank, RegComment, RegCall>>
    /\ i' = i + 1
    /\ skip_until_line' = 0
    /\ UNCHANGED <<script, file, lines, pc, run, prev, drift>>

\* Step 4
V2_SkipGit ==
    /\ Scanning("modify_main_v2") /\ V2_IsGit
    /\ skip_until_line' = V2_GitEnd
    /\ i' = i + 1
    /\ UNCHANGED <<script, file, lines, new_lines, pc, run, prev, drift>>

\* Step 5: `for j in range(i+1, len(lines))` sets skip_until_line at the first
\* gitWatchers.clear() line, and leaves it None when there is none.
V2_ReplaceCleanup ==
    /\ Scanning("modify_main_v2") /\ V2_IsCleanup
    /\ new_lines' = new_lines \o <<NewCleanup, CleanupCall>>
    /\ LET J == {j \in (i + 1) .. (N - 1) : HasClear(At(j))}
       IN  skip_until_line' =
              IF J = {} THEN 0 ELSE (CHOOSE j \in J : \A k \in J : j <= k) + 1
    /\ i' = i + 1
    /\ UNCHANGED <<script, file, lines, pc, run, prev, drift>>

V2_Keep ==
    /\ Scanning("modify_main_v2")
    /\ ~V2_Skipped /\ ~V2_IsImport /\ ~V2_IsIface /\ ~V2_IsClose /\ ~V2_IsGit
    /\ ~V2_IsCleanup
    /\ new_lines' = Append(new_lines, At(i))
    /\ i' = i + 1
    /\ skip_until_line' = 0
    /\ UNCHANGED <<script, file, lines, pc, run, prev, drift>>

-----------------------------------------------------------------------------
(* modify_main_final.py                                                    *)

FN_IsImport == i + 1 = FN_ImportLine /\ HasGenerateFileId(At(i))
FN_IsIface == ~FN_IsImport /\ i + 1 = FN_IfaceLine /\ HasIface(At(i))
FN_IsClose ==
    /\ ~FN_IsImport /\ ~FN_IsIface
    /\ HasClose(At(i)) /\ i + 1 > FN_CloseAfter /\ i + 1 < FN_CloseBefore
    /\ StatusChangeBefore(FN_Context)
FN_IsGit ==
    /\ ~FN_IsImport /\ ~FN_IsIface /\ ~FN_IsClose
    /\ i + 1 = FN_GitLine /\ HasGitInfo(At(i))
FN_IsCleanup ==
    /\ ~FN_IsImport /\ ~FN_IsIface /\ ~FN_IsClose /\ ~FN_IsGit
    /\ HasCleanup(At(i)) /\ i + 1 > FN_CleanupAfter /\ i + 1 < FN_CleanupBefore

\* Step 1
FN_AddImport ==
    /\ Scanning("modify_main_final") /\ FN_IsImport
    /\ new_lines' = new_lines \o <<At(i), NewImport>>
    /\ i' = i + 1
    /\ UNCHANGED <<script, file, lines, skip_until_line, pc, run, prev, drift>>

\* Step 2
FN_SkipIface ==
    /\ Scanning("modify_main_final") /\ FN_IsIface
    /\ i' = i + FN_IfaceSkip
    /\ UNCHANGED <<script, file, lines, new_lines, skip_until_line, pc, run, prev, drift>>

\* Step 3
FN_Register ==
    /\ Scanning("modify_main_final") /\ FN_IsClose
    /\ new_lines' = new_lines \o <<At(i), Blank, RegComment, RegCall>>
    /\ i' = i + 1
    /\ UNCHANGED <<script, file, lines, skip_until_line, pc, run, prev, drift>>

\* Step 4
FN_SkipGit ==
    /\ Scanning("modify_main_final") /\ FN_IsGit
    /\ i' = i + FN_GitSkip
    /\ UNCHANGED <<script, file, lines, new_lines, skip_until_line, pc, run, prev, drift>>

\* Step 5
FN_ReplaceCleanup ==
    /\ Scanning("modify_main_final") /\ FN_IsCleanup
    /\ new_lines' = new_lines \o <<NewCleanup, CleanupCall>>
    /\ pc' = "skip_cleanup"
    /\ UNCHANGED <<script, file, lines, i, skip_until_line, run, prev, drift>>

FN_SkipCleanupStep ==
    /\ script = "modify_main_final" /\ pc = "skip_cleanup"
    /\ SkipToEnd(HasClear(At(i + 1)))
    /\ UNCHANGED <<script, file, lines, new_lines, skip_until_line, run, prev, drift>>

FN_Keep ==
    /\ Scanning("modify_main_final")
    /\ ~FN_IsImport /\ ~FN_IsIface /\ ~FN_IsClose /\ ~FN_IsGit /\ ~FN_IsCleanup
    /\ new_lines' = Append(new_lines, At(i))
    /\ i' = i + 1
    /\ UNCHANGED <<script, file, lines, skip_until_line, pc, run, prev, drift>>

-----------------------------------------------------------------------------
(* The write-back, the same in the four scripts:                           *)
(*     with open('electron/main.ts', 'w', encoding='utf-8') as f:          *)
(*         f.writelines(new_lines)                                         *)

\* The scan loop is over.
EndScan ==
    /\ pc = "scan" /\ i >= N
    /\ pc' = "open"
    /\ UNCHANGED <<script, file, lines, new_lines, i, skip_until_line, run, prev, drift>>

\* open(..., 'w') truncates the file.
OpenForWrite ==
    /\ pc = "open"
    /\ file' = << >>
    /\ pc' = "writing"
    /\ UNCHANGED <<script, lines, new_lines, i, skip_until_line, run, prev, drift>>

\* writelines and the close at the end of the `with` block.
WriteLines ==
    /\ pc = "writing"
    /\ file' = new_lines
    /\ pc' = "done"
    /\ UNCHANGED <<script, lines, new_lines, i, skip_until_line, run, prev, drift>>

\* The process is killed, or a write fails, with n lines flushed.
Interrupt ==
    /\ pc = "writing"
    /\ \E n \in 0 .. MaxFlushed :
          n < Len(new_lines) /\ file' = SubSeq(new_lines, 1, n)
    /\ pc' = "interrupted"
    /\ UNCHANGED <<script, lines, new_lines, i, skip_until_line, run, prev, drift>>

-----------------------------------------------------------------------------
(* A second run of the same script, which reads the file again.            *)

Restart(content) ==
    /\ run = 1 /\ pc = "done"
    /\ file' = content
    /\ lines' = content
    /\ new_lines' = << >>
    /\ i' = 0
    /\ skip_until_line' = 0
    /\ pc' = "scan"
    /\ run' = 2
    /\ prev' = file
    /\ UNCHANGED script

\* on the file the first run wrote
RunAgain == Restart(file) /\ UNCHANGED drift

\* on the first run's input with k unrelated lines in front of it
RunDrifted == \E k \in 1 .. MaxShift : Restart(Drifted(lines, k)) /\ drift' = k

\* One step of the scan loop of main(), or of a loop inside it.
Scan ==
    \/ EG_AddImport \/ EG_SkipIface \/ EG_SkipIfaceStep
    \/ EG_SkipHandlers \/ EG_SkipHandlersStep \/ EG_Register
    \/ EG_ReplaceCleanup \/ EG_SkipCleanupStep \/ EG_Keep
    \/ MM_AddImport \/ MM_SkipIface \/ MM_Register \/ MM_SkipGit
    \/ MM_ReplaceCleanup \/ MM_Keep
    \/ V2_SkipLine \/ V2_AddImport \/ V2_SkipIface \/ V2_Register \/ V2_SkipGit
    \/ V2_ReplaceCleanup \/ V2_Keep
    \/ FN_AddImport \/ FN_SkipIface \/ FN_Register \/ FN_SkipGit
    \/ FN_ReplaceCleanup \/ FN_SkipCleanupStep \/ FN_Keep

Next ==
    \/ Scan
    \/ EndScan \/ OpenForWrite \/ WriteLines \/ Interrupt
    \/ RunAgain \/ RunDrifted

Spec == Init /\ [][Next]_vars

\* The runs alone: a first run and a second one on the file it wrote, neither of
\* them interrupted.  The process that runs a script is not suspended for ever
\* while it scans.
NextRuns == Scan \/ EndScan \/ OpenForWrite \/ WriteLines \/ RunAgain

FairSpec == Init /\ [][NextRuns]_vars /\ WF_vars(Scan \/ EndScan)

-----------------------------------------------------------------------------
(* Properties.                                                             *)

Count(s, l) == Cardinality({k \in DOMAIN s : s[k] = l})

\* C1: a second run of a script on the file its first run wrote leaves the file
\* line for line as the first run wrote it.
C1_Idempotent ==
    (run = 2 /\ drift = 0 /\ pc = "done") => file = prev

\* C2: from the moment the write-back has started until it has completed, also
\* when it is interrupted, the file holds the content that was read.
C2_AtomicWriteBack ==
    pc \in {"writing", "interrupted"} => file = lines

\* One of the five start markers is not in the document D (the import at the
\* line where script s looks for it).
MissingStartMarker(s, D) ==
    \/ ~(Layout(s).importLine \in DOMAIN D /\ HasGenerateFileId(D[Layout(s).importLine]))
    \/ ~\E p \in DOMAIN D : HasIface(D[p])
    \/ ~\E p \in DOMAIN D : HasClose(D[p]) /\ \E q \in 1 .. (p - 1) : HasStatusChange(D[q])
    \/ ~\E p \in DOMAIN D : HasGitInfo(D[p])
    \/ ~\E p \in DOMAIN D : HasCleanup(D[p])

\* C3: a run on a document that lacks one of the five start markers ends in an
\* error and the file is as it was.
C3_NoPartialApplication ==
    (run = 1 /\ pc \in {"done", "error"} /\ MissingStartMarker(script, lines))
        => (pc = "error" /\ file = lines)

\* C4: with k unrelated lines in front of the input, the run writes the output of
\* the run on the input with the same k lines in front of it.
C4_LineNumberInvariant ==
    (run = 2 /\ drift > 0 /\ pc = "done") => file = SubSeq(lines, 1, drift) \o prev

\* Line p of D is in a block that starts at a line of S and ends with the first
\* line of E after it.
InBlock(D, p, S, E) ==
    \E q \in 1 .. p : D[q] \in S /\ \A r \in q .. (p - 1) : D[r] \notin E

\* Line p of D is in a git handler block: after the get-info line and before the
\* first handler that is not a git handler, or the file system comment.
InHandlers(D, p) ==
    \E q \in 1 .. p : HasGitInfo(D[q]) /\ \A r \in q .. p : D[r] \notin {FsHandle, FsComment}

\* Line p of D is in a region the scripts are to delete.
Deleted(D, p) ==
    \/ InBlock(D, p, {Iface}, {Debounce})
    \/ InBlock(D, p, {Cleanup}, {Clear})
    \/ InHandlers(D, p)

\* C5: the lines of the input outside the deleted regions are in the output once
\* each, in their order.
C5_OtherLinesCopied ==
    (run = 1 /\ pc = "done") =>
        LET kept == {lines[p] : p \in {q \in DOMAIN lines : ~Deleted(lines, q)}}
            IsKept(l) == l \in kept
        IN  SelectSeq(file, IsKept) = SelectSeq(lines, IsKept)

\* C6: extract_git.py leaves no line of the git handler blocks in the output, and
\* the output ends with the lines from the one after the blocks onwards.
C6_AllHandlersRemoved ==
    (script = "extract_git" /\ run = 1 /\ pc = "done"
        /\ \E p \in DOMAIN lines : HasGitInfo(lines[p])) =>
        LET gone == {p \in DOMAIN lines : InHandlers(lines, p)}
            rest == {p \in DOMAIN lines : \A q \in gone : q < p}
            tail == [k \in 1 .. Cardinality(rest) |-> lines[N - Cardinality(rest) + k]]
        IN  /\ \A k \in DOMAIN file : \A p \in gone : file[k] # lines[p]
            /\ Len(file) >= Len(tail)
            /\ SubSeq(file, Len(file) - Len(tail) + 1, Len(file)) = tail

\* The document has the status-change block, closed where script s expects it.
HasStatusBlock(s, D) ==
    /\ Layout(s).closeLine \in DOMAIN D
    /\ HasClose(D[Layout(s).closeLine])
    /\ HasStatusChange(D[Layout(s).closeLine - 2])

\* C7: the output has one registration call, right after the line that closes the
\* status-change block and before the line that followed it.
C7_OneRegistration ==
    (run = 1 /\ pc = "done" /\ HasStatusBlock(script, lines)) =>
        /\ Count(file, RegCall) = 1
        /\ \E k \in DOMAIN file :
              /\ k > 3 /\ k < Len(file)
              /\ file[k] = RegCall
              /\ file[k - 3] = lines[Layout(script).closeLine]
              /\ file[k + 1] = lines[Layout(script).closeLine + 1]

\* C8: with the generateFileId import on line 16 of at least 17, the output has
\* the git-service import once, right after that line.
C8_ImportAfterLine16 ==
    (run = 1 /\ pc = "done" /\ N > V2_ImportLine /\ HasGenerateFileId(lines[V2_ImportLine])) =>
        /\ Count(file, NewImport) = 1
        /\ \E k \in DOMAIN file :
              k > 1 /\ file[k] = NewImport /\ file[k - 1] = lines[V2_ImportLine]

\* The scan of script s on D matches a cleanup start marker with no
\* gitWatchers.clear() line after it.
CleanupNeverEnds(s, D) ==
    \E p \in DOMAIN D :
        /\ HasCleanup(D[p])
        /\ s = "modify_main_v2" => p > V2_CleanupAfter
        /\ s = "modify_main_final" => (p > FN_CleanupAfter /\ p < FN_CleanupBefore)
        /\ \A q \in (p + 1) .. Len(D) : ~HasClear(D[q])

\* C9: in extract_git.py, modify_main_v2.py and modify_main_final.py a cleanup
\* start marker without its end marker stops the run before the file is opened
\* for writing.
C9_MissingEndAborts ==
    (script \in {"extract_git", "modify_main_v2", "modify_main_final"}
        /\ pc \in {"writing", "done", "interrupted"})
        => ~CleanupNeverEnds(script, lines)

\* main() is in its scan loop or in a loop inside it.
InLoop == pc \in {"scan", "skip_iface", "skip_handlers", "skip_cleanup"}

\* C10: every iteration of the scan loop, and of a loop inside it, moves the
\* cursor i forward or ends the run with an error (an iteration that enters an
\* inner loop does so in that loop's first iteration); and every scan ends, at the
\* write-back or in an error.
C10_Termination ==
    /\ [][(InLoop /\ i < N) =>
            \/ i' > i
            \/ pc' = "error"
            \/ (pc = "scan" /\ pc' \in {"skip_iface", "skip_handlers", "skip_cleanup"}
                /\ i' = i)]_vars
    /\ (InLoop ~> (pc \in {"open", "error"}))

\* A second run has run off the end of the file looking for an end marker that the
\* first run removed.
C10_Witness == run = 2 /\ pc = "error" /\ i >= N

=============================================================================
